---- MODULE Spec2Model ----
(***************************************************************************)
(* State-machine model of src/app.py: a Flask application over three       *)
(* SQLAlchemy tables (User, Student, Complaint) stored in SQLite, with a   *)
(* per-browser session dictionary.  One action per request handler.        *)
(***************************************************************************)
EXTENDS Integers, Sequences, FiniteSets, TLC

VARIABLES
    users,       \* rows of table User
    students,    \* rows of table Student
    complaints,  \* rows of table Complaint
    session,     \* browser |-> Flask session dictionary
    pending,     \* browser |-> request suspended between its query and its commit
    last         \* the most recent request and its response

vars == <<users, students, complaints, session, pending, last>>

store == <<users, students, complaints>>

(***************************************************************************)
(* Bounds of the model.                                                    *)
(***************************************************************************)
MaxStudentId == 2      \* largest Student.id the store may hand out
MaxComplaints == 2     \* number of Complaint rows the store may hold

(***************************************************************************)
(* Dictionaries (session, request.form): functions from a set of keys.     *)
(***************************************************************************)
Has(d, k) == k \in DOMAIN d

Get(d, k, default) == IF k \in DOMAIN d THEN d[k] ELSE default

Put(d, k, v) == [x \in (DOMAIN d) \cup {k} |-> IF x = k THEN v ELSE d[x]]

Pop(d, k) == [x \in (DOMAIN d) \ {k} |-> d[x]]

EmptyDict == [x \in {} |-> x]

(***************************************************************************)
(* Text of a number field: a sequence of characters.                       *)
(***************************************************************************)
Digits == {"0", "1", "2"}

DigitVal(c) == CASE c = "0" -> 0 [] c = "1" -> 1 [] c = "2" -> 2

RECURSIVE StripLeft(_)
StripLeft(t) == IF t # <<>> /\ Head(t) = " " THEN StripLeft(Tail(t)) ELSE t

RECURSIVE StripRight(_)
StripRight(t) ==
    IF t # <<>> /\ t[Len(t)] = " " THEN StripRight(SubSeq(t, 1, Len(t) - 1)) ELSE t

Strip(t) == StripRight(StripLeft(t))

AllDigits(t) == t # <<>> /\ \A i \in 1..Len(t) : t[i] \in Digits

RECURSIVE DecimalValue(_)
DecimalValue(t) ==
    IF t = <<>> THEN 0 ELSE 10 * DecimalValue(SubSeq(t, 1, Len(t) - 1)) + DigitVal(t[Len(t)])

\* Python int(text): surrounding whitespace is ignored, anything else that is
\* not a decimal digit raises ValueError.
PyIntOK(t) == AllDigits(Strip(t))

PyInt(t) == DecimalValue(Strip(t))

\* SQLite compares or stores a text value bound to an INTEGER column after
\* applying numeric affinity: text that reads as an integer becomes that integer,
\* other text stays text and equals no integer.
AffinityIsInt(t) == AllDigits(Strip(t))

AffinityInt(t) == DecimalValue(Strip(t))

(***************************************************************************)
(* werkzeug.security: a salted hash, and its check.                        *)
(***************************************************************************)
Salts == {"salt1"}

Digest(salt, pw) == <<"h", salt, pw>>

GeneratePasswordHash(salt, pw) == [method |-> "scrypt", salt |-> salt, hash |-> Digest(salt, pw)]

CheckPasswordHash(pwhash, pw) == pwhash.hash = Digest(pwhash.salt, pw)

(***************************************************************************)
(* Storage layer: SQLite tables with their declared constraints.           *)
(***************************************************************************)
MaxOf(S) == CHOOSE m \in S : \A x \in S : x <= m

\* INTEGER PRIMARY KEY without AUTOINCREMENT: one more than the largest id in use.
NextId(rows) == IF rows = {} THEN 1 ELSE MaxOf({r.id : r \in rows}) + 1

\* User.username unique, User.email unique.
UserInsertOK(row) ==
    \A u \in users : u.username # row.username /\ u.email # row.email

\* a table declared without unique=True on roll_no
StudentInsertOK_NoConstraint(row) == TRUE

\* Student.roll_no unique.
StudentInsertOK(row) == \A st \in students : st.roll_no # row.roll_no

StudentUpdateOK(row) == \A st \in students : st.id # row.id => st.roll_no # row.roll_no

FindUser(username) == {u \in users : u.username = username}

GetUser(id) == {u \in users : u.id = id}

GetStudent(id) == {st \in students : st.id = id}

StudentsByRoll(roll) == {st \in students : st.roll_no = roll}

(***************************************************************************)
(* Sessions and responses.                                                 *)
(***************************************************************************)
Browsers == DOMAIN session

\* a guard that forgets the role
IsTeacher_UserIdOnly(sess) == Has(sess, "user_id")

IsTeacher(sess) == Has(sess, "user_id") /\ Get(sess, "role", "") = "teacher"

IsParent(sess) == Has(sess, "parent_lookup_id") /\ Get(sess, "role", "") = "parent"

NoReq == [op |-> "none"]

\* kind: "redirect" to an endpoint, "render" of a template, or "error" (an
\* exception that no handler catches: HTTP 500).
Response(b, op, outcome, kind, to) ==
    [browser |-> b, op |-> op, outcome |-> outcome, kind |-> kind, to |-> to,
     students |-> {}, complaints |-> <<>>, mail |-> <<>>]

Redirect(b, op, outcome, to) == Response(b, op, outcome, "redirect", to)

Render(b, op, template) == Response(b, op, "OK", "render", template)

Fault(b, op, exception) == Response(b, op, exception, "error", "500")

Idle(b) == pending[b] = NoReq

(***************************************************************************)
(* Request inputs.                                                         *)
(***************************************************************************)
RegisterForms ==
    { [username |-> "ms_lee", email |-> "lee@s.edu", password |-> "pw1"],
      [username |-> "ms_lee", email |-> "kim@s.edu", password |-> "pw2", role |-> "parent"],
      [username |-> "mr_kim", email |-> "lee@s.edu", password |-> "pw1", role |-> "parent"] }

Credentials ==
    { [username |-> u, password |-> p] : u \in {"ms_lee", "mr_kim"}, p \in {"pw1", "pw2"} }

RollTexts == { <<"1">>, <<"2">>, <<" ", "1">>, <<"x">>, <<>> }

ParentEmails == {"a@x.com", "b@x.com"}

LookupForms ==
    { [roll_no |-> r, parent_email |-> e] : r \in RollTexts \ {<<>>}, e \in ParentEmails }
    \cup { [roll_no |-> <<"1">>, parent_email |-> ""], [roll_no |-> <<"1">>],
           [roll_no |-> <<>>, parent_email |-> "a@x.com"], [parent_email |-> "a@x.com"] }

\* the login form of login.html serves both audiences: username and password
\* for teachers, roll_no and parent_email for parents
LoginLookups ==
    { EmptyDict,
      [roll_no |-> <<"1">>, parent_email |-> "a@x.com"],
      [roll_no |-> <<" ", "1">>, parent_email |-> "b@x.com"],
      [roll_no |-> <<"x">>, parent_email |-> "a@x.com"],
      [roll_no |-> <<"1">>],
      [roll_no |-> <<>>, parent_email |-> "a@x.com"] }

LoginForms ==
    { c @@ x : c \in {cr \in Credentials : cr.username = "ms_lee"}, x \in LoginLookups }

OtherFields ==
    {"name", "standard", "attendance", "health_issues", "assignments_pending",
     "assignments_submitted", "remarks", "parent_email"}

FormA ==
    [name |-> "Ana", standard |-> "5", attendance |-> "90%", health_issues |-> "none",
     assignments_pending |-> "0", assignments_submitted |-> "3", remarks |-> "good",
     parent_email |-> "a@x.com"]

FormB ==
    [name |-> "Ben", standard |-> "6", attendance |-> "80%", health_issues |-> "asthma",
     assignments_pending |-> "2", assignments_submitted |-> "1", remarks |-> "late",
     parent_email |-> "b@x.com"]

StudentForms ==
    { Put(FormA, "roll_no", r) : r \in RollTexts \ {<<>>} }
    \cup { Put(FormB, "roll_no", <<"2">>) }
    \cup { FormA, Pop(Put(FormB, "roll_no", <<"2">>), "remarks") }

StudentIds == 1..(MaxStudentId + 1)

ComplaintForms ==
    { [roll_no |-> r, title |-> "Homework", description |-> "Not submitted"] :
        r \in RollTexts \ {<<>>} }
    \cup { [roll_no |-> <<"1">>, title |-> "Homework"] }

(***************************************************************************)
(* Handlers.                                                               *)
(***************************************************************************)

\* home(), lines 95-102
Home(b) ==
    /\ Idle(b)
    /\ last' = IF IsTeacher(session[b]) THEN Redirect(b, "home", "OK", "view_students")
               ELSE IF IsParent(session[b]) THEN Redirect(b, "home", "OK", "parent_dashboard")
               ELSE Render(b, "home", "login.html")
    /\ UNCHANGED <<store, session, pending>>

\* a register that stores the new password over a user of the same name
Register_Overwrite(b, form, salt) ==
    /\ Idle(b)
    /\ LET row == [id |-> NextId(users), username |-> form.username,
                   password |-> GeneratePasswordHash(salt, form.password),
                   role |-> Get(form, "role", "teacher"), email |-> form.email]
       IN  IF FindUser(form.username) # {}
           THEN /\ users' = {[u EXCEPT !.password =
                                 IF u.username = form.username THEN row.password ELSE @]
                             : u \in users}
                /\ last' = Redirect(b, "register", "DuplicateUsername", "register")
           ELSE IF UserInsertOK(row)
           THEN /\ users' = users \cup {row}
                /\ last' = Redirect(b, "register", "OK", "home")
           ELSE /\ last' = Fault(b, "register", "IntegrityError")
                /\ UNCHANGED users
    /\ UNCHANGED <<students, complaints, session, pending>>

\* register(), POST, lines 105-123
Register(b, form, salt) ==
    /\ Idle(b)
    /\ LET role == Get(form, "role", "teacher")
           row  == [id |-> NextId(users), username |-> form.username,
                    password |-> GeneratePasswordHash(salt, form.password),
                    role |-> role, email |-> form.email]
       IN  IF FindUser(form.username) # {}
           THEN /\ last' = Redirect(b, "register", "DuplicateUsername", "register")
                /\ UNCHANGED users
           ELSE IF UserInsertOK(row)
           THEN /\ users' = users \cup {row}
                /\ last' = Redirect(b, "register", "OK", "home")
           ELSE /\ last' = Fault(b, "register", "IntegrityError")
                /\ UNCHANGED users
    /\ UNCHANGED <<students, complaints, session, pending>>

\* register(), GET, lines 105-107 and 125
RegisterGet(b) ==
    /\ Idle(b)
    /\ last' = Render(b, "register", "register.html")
    /\ UNCHANGED <<store, session, pending>>

\* a lookup that filters on roll_no alone
ParentLookupBody_RollOnly(b, op, form) ==
    LET roll_no == Get(form, "roll_no", <<>>)
        parent_email == Get(form, "parent_email", "")
    IN  IF roll_no = <<>> \/ parent_email = "" \/ ~PyIntOK(roll_no)
        THEN /\ last' = Redirect(b, op, "InvalidLookup", "home")
             /\ UNCHANGED session
        ELSE LET found == StudentsByRoll(PyInt(roll_no))
             IN  IF found # {}
                 THEN \E student \in found :
                        /\ session' = [session EXCEPT ![b] =
                              Put(Put(Put(@, "parent_lookup_id", student.id),
                                      "parent_lookup_roll_no", student.roll_no),
                                  "role", "parent")]
                        /\ last' = Redirect(b, op, "OK", "parent_dashboard")
                 ELSE /\ last' = Redirect(b, op, "InvalidLookup", "home")
                      /\ UNCHANGED session

\* parent_lookup(), lines 128-153, on the form of the current request
ParentLookupBody(b, op, form) ==
    LET roll_no == Get(form, "roll_no", <<>>)
        parent_email == Get(form, "parent_email", "")
    IN  IF roll_no = <<>> \/ parent_email = ""
        THEN /\ last' = Redirect(b, op, "InvalidLookup", "home")
             /\ UNCHANGED session
        ELSE IF ~PyIntOK(roll_no)
        THEN /\ last' = Redirect(b, op, "InvalidLookup", "home")
             /\ UNCHANGED session
        ELSE LET found == {st \in StudentsByRoll(PyInt(roll_no)) : st.parent_email = parent_email}
             IN  IF found # {}
                 THEN \E student \in found :
                        /\ session' = [session EXCEPT ![b] =
                              Put(Put(Put(@, "parent_lookup_id", student.id),
                                      "parent_lookup_roll_no", student.roll_no),
                                  "role", "parent")]
                        /\ last' = Redirect(b, op, "OK", "parent_dashboard")
                 ELSE /\ last' = Redirect(b, op, "InvalidLookup", "home")
                      /\ UNCHANGED session

ParentLookup(b, form) ==
    /\ Idle(b)
    /\ ParentLookupBody(b, "parent_lookup", form)
    /\ UNCHANGED <<store, pending>>

\* a login that never passes control to the parent lookup
Login_NoFallback(b, form) ==
    /\ Idle(b)
    /\ LET username == Get(form, "username", "")
           password == Get(form, "password", "")
           matched  == {u \in FindUser(username) : CheckPasswordHash(u.password, password)}
       IN  IF matched # {}
           THEN \E user \in matched :
                  /\ session' = [session EXCEPT ![b] =
                        Put(Put(@, "user_id", user.id), "role", user.role)]
                  /\ last' = Redirect(b, "login", "OK", "view_students")
           ELSE /\ last' = Redirect(b, "login", "InvalidCredentials", "home")
                /\ UNCHANGED session
    /\ UNCHANGED <<store, pending>>

\* a login that leaves a role already in the session as it is
Login_KeepsRole(b, form) ==
    /\ Idle(b)
    /\ LET username == Get(form, "username", "")
           password == Get(form, "password", "")
           matched  == {u \in FindUser(username) : CheckPasswordHash(u.password, password)}
       IN  IF matched # {}
           THEN \E user \in matched :
                  /\ session' = [session EXCEPT ![b] =
                        Put(Put(@, "user_id", user.id), "role", Get(@, "role", user.role))]
                  /\ last' = Redirect(b, "login", "OK", "view_students")
           ELSE IF Get(form, "roll_no", <<>>) # <<>> /\ Get(form, "parent_email", "") # ""
           THEN ParentLookupBody(b, "login", form)
           ELSE /\ last' = Redirect(b, "login", "InvalidCredentials", "home")
                /\ UNCHANGED session
    /\ UNCHANGED <<store, pending>>

\* login(), lines 155-172
Login(b, form) ==
    /\ Idle(b)
    /\ LET username == Get(form, "username", "")
           password == Get(form, "password", "")
           matched  == {u \in FindUser(username) : CheckPasswordHash(u.password, password)}
       IN  IF matched # {}
           THEN \E user \in matched :
                  /\ session' = [session EXCEPT ![b] =
                        Put(Put(@, "user_id", user.id), "role", user.role)]
                  /\ last' = Redirect(b, "login", "OK", "view_students")
           ELSE IF Get(form, "roll_no", <<>>) # <<>> /\ Get(form, "parent_email", "") # ""
           THEN ParentLookupBody(b, "login", form)
           ELSE /\ last' = Redirect(b, "login", "InvalidCredentials", "home")
                /\ UNCHANGED session
    /\ UNCHANGED <<store, pending>>

\* a logout that leaves the parent's roll number behind
Logout_KeepsRollNo(b) ==
    /\ Idle(b)
    /\ session' = [session EXCEPT ![b] =
          Pop(Pop(Pop(@, "user_id"), "role"), "parent_lookup_id")]
    /\ last' = Redirect(b, "logout", "OK", "home")
    /\ UNCHANGED <<store, pending>>

\* a logout that pops user_id alone
Logout_KeepsParentClaims(b) ==
    /\ Idle(b)
    /\ session' = [session EXCEPT ![b] = Pop(@, "user_id")]
    /\ last' = Redirect(b, "logout", "OK", "home")
    /\ UNCHANGED <<store, pending>>

\* logout(), lines 175-182
Logout(b) ==
    /\ Idle(b)
    /\ session' = [session EXCEPT ![b] =
          Pop(Pop(Pop(Pop(@, "user_id"), "role"), "parent_lookup_id"), "parent_lookup_roll_no")]
    /\ last' = Redirect(b, "logout", "OK", "home")
    /\ UNCHANGED <<store, pending>>

(***************************************************************************)
(* Teacher handlers.                                                       *)
(***************************************************************************)
Unauthorized(b, op) == Redirect(b, op, "Unauthorized", "home")

\* send_notification_email(), lines 75-82: logs the event and returns False
SendNotificationEmail(resp, parent_email, student_name, event_type) ==
    [resp EXCEPT !.mail = Append(@, [to |-> parent_email, name |-> student_name,
                                     event |-> event_type])]

\* request.form[key] for every key the handler reads: a missing key raises
\* BadRequestKeyError, which Flask answers with HTTP 400
FormComplete(form) == OtherFields \subseteq DOMAIN form

BadRequest(b, op) == Response(b, op, "BadRequest", "error", "400")

StudentRow(id, roll_no, form) ==
    [id |-> id, roll_no |-> roll_no, name |-> form.name, standard |-> form.standard,
     attendance |-> form.attendance, health_issues |-> form.health_issues,
     assignments_pending |-> form.assignments_pending,
     assignments_submitted |-> form.assignments_submitted,
     remarks |-> form.remarks, parent_email |-> form.parent_email]

\* view_students(), lines 186-193
ViewStudents(b) ==
    /\ Idle(b)
    /\ last' = IF ~IsTeacher(session[b]) THEN Unauthorized(b, "view_students")
               ELSE [Render(b, "view_students", "teacher_dashboard.html")
                        EXCEPT !.students = students]
    /\ UNCHANGED <<store, session, pending>>

\* add_student(), GET, lines 196-200 and 240
AddStudentGet(b) ==
    /\ Idle(b)
    /\ last' = IF ~IsTeacher(session[b]) THEN Unauthorized(b, "add_student")
               ELSE Render(b, "add_student", "add_student.html")
    /\ UNCHANGED <<store, session, pending>>

\* add_student(), POST, lines 222-238: insert, commit, notify
AddStudentCommit(b, form) ==
    LET row == StudentRow(NextId(students), PyInt(form.roll_no), form)
    IN  IF StudentInsertOK(row)
        THEN /\ row.id <= MaxStudentId
             /\ students' = students \cup {row}
             /\ last' = SendNotificationEmail(
                           Redirect(b, "add_student", "OK", "view_students"),
                           row.parent_email, row.name, "Update")
        ELSE /\ last' = Fault(b, "add_student", "IntegrityError")
             /\ UNCHANGED students

\* add_student(), POST, lines 202-220: the checks before the insert
AddStudentCheck(b, form) ==
    IF ~IsTeacher(session[b]) THEN Unauthorized(b, "add_student")
    ELSE IF ~Has(form, "roll_no") THEN BadRequest(b, "add_student")
    ELSE IF ~PyIntOK(form.roll_no)
    THEN Redirect(b, "add_student", "InvalidInput", "add_student")
    ELSE IF StudentsByRoll(PyInt(form.roll_no)) # {}
    THEN Redirect(b, "add_student", "DuplicateRollNo", "add_student")
    ELSE IF ~FormComplete(form) THEN BadRequest(b, "add_student")
    ELSE Render(b, "add_student", "proceed")

\* add_student(), POST, lines 196-238, as one step
AddStudent(b, form) ==
    /\ Idle(b)
    /\ LET check == AddStudentCheck(b, form)
       IN  IF check.to = "proceed"
           THEN AddStudentCommit(b, form)
           ELSE /\ last' = check
                /\ UNCHANGED students
    /\ UNCHANGED <<users, complaints, session, pending>>

\* send_email_route(id), lines 243-263
SendEmailRoute(b, id) ==
    /\ Idle(b)
    /\ last' = IF ~IsTeacher(session[b]) THEN Unauthorized(b, "send_email_route")
               ELSE IF GetStudent(id) = {}
               THEN Redirect(b, "send_email_route", "NotFound", "view_students")
               ELSE LET student == CHOOSE st \in GetStudent(id) : TRUE
                    IN  SendNotificationEmail(
                           Redirect(b, "send_email_route", "OK", "view_students"),
                           student.parent_email, student.name, "Update")
    /\ UNCHANGED <<store, session, pending>>

\* update_student(id), GET, lines 266-275 and 310
UpdateStudentGet(b, id) ==
    /\ Idle(b)
    /\ last' = IF ~IsTeacher(session[b]) THEN Unauthorized(b, "update_student")
               ELSE IF GetStudent(id) = {}
               THEN Redirect(b, "update_student", "NotFound", "view_students")
               ELSE [Render(b, "update_student", "update_student.html")
                        EXCEPT !.students = GetStudent(id)]
    /\ UNCHANGED <<store, session, pending>>

\* The unit of work writes the columns whose assigned value differs from the
\* value loaded at line 272, and leaves the others as they are in the store
FlushedRow(current, loaded, assigned) ==
    [f \in DOMAIN current |-> IF assigned[f] # loaded[f] THEN assigned[f] ELSE current[f]]

\* update_student(id), POST, lines 291-308: assign, commit, notify; `loaded` is
\* the row that line 272 read
UpdateStudentCommit(b, loaded, form) ==
    LET assigned == StudentRow(loaded.id, PyInt(form.roll_no), form)
    IN  IF assigned = loaded
        \* nothing to write
        THEN /\ last' = SendNotificationEmail(
                           Redirect(b, "update_student", "OK", "view_students"),
                           assigned.parent_email, assigned.name, "Update")
             /\ UNCHANGED students
        ELSE IF GetStudent(loaded.id) = {}
        \* the row was deleted since it was loaded: the UPDATE matches no row
        THEN /\ last' = Fault(b, "update_student", "StaleDataError")
             /\ UNCHANGED students
        ELSE LET current == CHOOSE st \in GetStudent(loaded.id) : TRUE
                 row     == FlushedRow(current, loaded, assigned)
             IN  IF StudentUpdateOK(row)
                 THEN /\ students' = (students \ {current}) \cup {row}
                      /\ last' = SendNotificationEmail(
                                    Redirect(b, "update_student", "OK", "view_students"),
                                    row.parent_email, row.name, "Update")
                 ELSE /\ last' = Fault(b, "update_student", "IntegrityError")
                      /\ UNCHANGED students

\* an update that does not look for the new roll_no among the other rows
UpdateStudentCheck_NoUniqueCheck(b, id, form) ==
    IF ~IsTeacher(session[b]) THEN Unauthorized(b, "update_student")
    ELSE IF GetStudent(id) = {}
    THEN Redirect(b, "update_student", "NotFound", "view_students")
    ELSE IF ~Has(form, "roll_no") THEN BadRequest(b, "update_student")
    ELSE IF ~PyIntOK(form.roll_no)
    THEN Redirect(b, "update_student", "InvalidInput", "update_student")
    ELSE IF ~FormComplete(form) THEN BadRequest(b, "update_student")
    ELSE Render(b, "update_student", "proceed")

\* an update whose uniqueness query does not leave out the record's own row
UpdateStudentCheck_IncludesOwnRow(b, id, form) ==
    IF ~IsTeacher(session[b]) THEN Unauthorized(b, "update_student")
    ELSE IF GetStudent(id) = {}
    THEN Redirect(b, "update_student", "NotFound", "view_students")
    ELSE IF ~Has(form, "roll_no") THEN BadRequest(b, "update_student")
    ELSE IF ~PyIntOK(form.roll_no)
    THEN Redirect(b, "update_student", "InvalidInput", "update_student")
    ELSE IF StudentsByRoll(PyInt(form.roll_no)) # {}
    THEN Redirect(b, "update_student", "DuplicateRollNo", "update_student")
    ELSE IF ~FormComplete(form) THEN BadRequest(b, "update_student")
    ELSE Render(b, "update_student", "proceed")

\* update_student(id), POST, lines 266-289: the checks before the assignments
UpdateStudentCheck(b, id, form) ==
    IF ~IsTeacher(session[b]) THEN Unauthorized(b, "update_student")
    ELSE IF GetStudent(id) = {}
    THEN Redirect(b, "update_student", "NotFound", "view_students")
    ELSE IF ~Has(form, "roll_no") THEN BadRequest(b, "update_student")
    ELSE IF ~PyIntOK(form.roll_no)
    THEN Redirect(b, "update_student", "InvalidInput", "update_student")
    ELSE IF /\ \E st \in GetStudent(id) : PyInt(form.roll_no) # st.roll_no
            /\ StudentsByRoll(PyInt(form.roll_no)) # {}
    THEN Redirect(b, "update_student", "DuplicateRollNo", "update_student")
    ELSE IF ~FormComplete(form) THEN BadRequest(b, "update_student")
    ELSE Render(b, "update_student", "proceed")

\* an update that moves the student's complaints to the new roll_no
UpdateStudent_RelinksComplaints(b, id, form) ==
    /\ Idle(b)
    /\ LET check == UpdateStudentCheck(b, id, form)
       IN  IF check.to = "proceed"
           THEN UpdateStudentCommit(b, CHOOSE st \in GetStudent(id) : TRUE, form)
           ELSE /\ last' = check
                /\ UNCHANGED students
    /\ complaints' =
          IF students' = students THEN complaints
          ELSE LET old == CHOOSE st \in students : st.id = id
                   new == CHOOSE st \in students' : st.id = id
               IN  {[c EXCEPT !.student_roll_no =
                        IF @ = old.roll_no THEN new.roll_no ELSE @] : c \in complaints}
    /\ UNCHANGED <<users, session, pending>>

\* update_student(id), POST, lines 266-308, as one step
UpdateStudent(b, id, form) ==
    /\ Idle(b)
    /\ LET check == UpdateStudentCheck(b, id, form)
       IN  IF check.to = "proceed"
           THEN UpdateStudentCommit(b, CHOOSE st \in GetStudent(id) : TRUE, form)
           ELSE /\ last' = check
                /\ UNCHANGED students
    /\ UNCHANGED <<users, complaints, session, pending>>

\* add_student(), POST, up to the query of line 209 when it finds no row
AddStudentQuery(b, form) ==
    /\ Idle(b)
    /\ AddStudentCheck(b, form).to = "proceed"
    /\ pending' = [pending EXCEPT ![b] = [op |-> "add_student", form |-> form]]
    /\ UNCHANGED <<store, session, last>>

\* add_student(), POST, from line 213 on, run after other requests
AddStudentWrite(b) ==
    /\ pending[b].op = "add_student"
    /\ AddStudentCommit(b, pending[b].form)
    /\ pending' = [pending EXCEPT ![b] = NoReq]
    /\ UNCHANGED <<users, complaints, session>>

\* update_student(id), POST, up to the query of line 287 when it finds no row
UpdateStudentQuery(b, id, form) ==
    /\ Idle(b)
    /\ UpdateStudentCheck(b, id, form).to = "proceed"
    /\ pending' = [pending EXCEPT ![b] =
          [op |-> "update_student", form |-> form,
           loaded |-> CHOOSE st \in GetStudent(id) : TRUE]]
    /\ UNCHANGED <<store, session, last>>

\* update_student(id), POST, from line 291 on, run after other requests
UpdateStudentWrite(b) ==
    /\ pending[b].op = "update_student"
    /\ UpdateStudentCommit(b, pending[b].loaded, pending[b].form)
    /\ pending' = [pending EXCEPT ![b] = NoReq]
    /\ UNCHANGED <<users, complaints, session>>

\* Student.complaints (lines 59-60): the rows joined to a student by roll_no
ComplaintsOf(student) == {c \in complaints : c.student_roll_no = student.roll_no}

\* a delete_student that also deletes the complaints joined to the student
DeleteStudent_CascadeComplaints(b, id) ==
    /\ Idle(b)
    /\ IF ~IsTeacher(session[b])
       THEN /\ last' = Unauthorized(b, "delete_student")
            /\ UNCHANGED <<students, complaints>>
       ELSE IF GetStudent(id) = {}
       THEN /\ last' = Redirect(b, "delete_student", "NotFound", "view_students")
            /\ UNCHANGED <<students, complaints>>
       ELSE LET student == CHOOSE st \in GetStudent(id) : TRUE
            IN  /\ students' = students \ {student}
                /\ complaints' = complaints \ ComplaintsOf(student)
                /\ last' = SendNotificationEmail(
                              Redirect(b, "delete_student", "OK", "view_students"),
                              student.parent_email, student.name, "Delete")
    /\ UNCHANGED <<users, session, pending>>

\* a delete_student that notifies before it commits
DeleteStudent_NotifiesBeforeCommit(b, id) ==
    /\ Idle(b)
    /\ IF ~IsTeacher(session[b])
       THEN /\ last' = Unauthorized(b, "delete_student")
            /\ UNCHANGED students
       ELSE IF GetStudent(id) = {}
       THEN /\ last' = Redirect(b, "delete_student", "NotFound", "view_students")
            /\ UNCHANGED students
       ELSE LET student == CHOOSE st \in GetStudent(id) : TRUE
            IN  IF ComplaintsOf(student) # {}
                THEN /\ last' = SendNotificationEmail(
                                   Fault(b, "delete_student", "IntegrityError"),
                                   student.parent_email, student.name, "Delete")
                     /\ UNCHANGED students
                ELSE /\ students' = students \ {student}
                     /\ last' = SendNotificationEmail(
                                   Redirect(b, "delete_student", "OK", "view_students"),
                                   student.parent_email, student.name, "Delete")
    /\ UNCHANGED <<users, complaints, session, pending>>

\* delete_student(id), lines 312-331.  The relationship Student.complaints has
\* no delete cascade, so the flush first sets student_roll_no of the student's
\* complaints to NULL; the column is nullable=False (line 65), which the store
\* rejects, and nothing is deleted.
DeleteStudent(b, id) ==
    /\ Idle(b)
    /\ IF ~IsTeacher(session[b])
       THEN /\ last' = Unauthorized(b, "delete_student")
            /\ UNCHANGED students
       ELSE IF GetStudent(id) = {}
       THEN /\ last' = Redirect(b, "delete_student", "NotFound", "view_students")
            /\ UNCHANGED students
       ELSE LET student == CHOOSE st \in GetStudent(id) : TRUE
            IN  IF ComplaintsOf(student) # {}
                THEN /\ last' = Fault(b, "delete_student", "IntegrityError")
                     /\ UNCHANGED students
                ELSE /\ students' = students \ {student}
                     /\ last' = SendNotificationEmail(
                                   Redirect(b, "delete_student", "OK", "view_students"),
                                   student.parent_email, student.name, "Delete")
    /\ UNCHANGED <<users, complaints, session, pending>>

\* Complaint.date_filed (line 69): CURRENT_TIMESTAMP at the insert, in whole
\* seconds.  The clock never runs backwards, and only the order of the stamps
\* matters: an insert falls in the second of the latest complaint or in a later one.
Now ==
    IF complaints = {} THEN {1}
    ELSE LET latest == MaxOf({c.date_filed : c \in complaints}) IN {latest, latest + 1}

\* add_complaint(), GET, lines 333-337 and 376-377
AddComplaintGet(b) ==
    /\ Idle(b)
    /\ last' = IF ~IsTeacher(session[b]) THEN Unauthorized(b, "add_complaint")
               ELSE [Render(b, "add_complaint", "add_complaint.html")
                        EXCEPT !.students = students]
    /\ UNCHANGED <<store, session, pending>>

\* an add_complaint that files the complaint without looking the student up
AddComplaint_NoLookup(b, form, now) ==
    /\ Idle(b)
    /\ IF ~IsTeacher(session[b])
       THEN /\ last' = Unauthorized(b, "add_complaint")
            /\ UNCHANGED complaints
       ELSE IF ~({"roll_no", "title", "description"} \subseteq DOMAIN form)
       THEN /\ last' = BadRequest(b, "add_complaint")
            /\ UNCHANGED complaints
       ELSE IF ~AffinityIsInt(form.roll_no)
       THEN /\ last' = Redirect(b, "add_complaint", "NotFound", "add_complaint")
            /\ UNCHANGED complaints
       ELSE /\ Cardinality(complaints) < MaxComplaints
            /\ complaints' = complaints \cup
                 {[id |-> NextId(complaints),
                   student_roll_no |-> AffinityInt(form.roll_no),
                   title |-> form.title, description |-> form.description,
                   teacher_username |-> "Unknown Teacher",
                   date_filed |-> now, status |-> "Pending"]}
            /\ last' = Redirect(b, "add_complaint", "OK", "view_complaints")
    /\ UNCHANGED <<users, students, session, pending>>

\* add_complaint(), POST, lines 333-374
AddComplaint(b, form, now) ==
    /\ Idle(b)
    /\ IF ~IsTeacher(session[b])
       THEN /\ last' = Unauthorized(b, "add_complaint")
            /\ UNCHANGED complaints
       ELSE IF ~({"roll_no", "title", "description"} \subseteq DOMAIN form)
       THEN /\ last' = BadRequest(b, "add_complaint")
            /\ UNCHANGED complaints
       ELSE LET user  == GetUser(session[b].user_id)
                found == IF AffinityIsInt(form.roll_no)
                         THEN StudentsByRoll(AffinityInt(form.roll_no)) ELSE {}
            IN  IF found = {}
                THEN /\ last' = Redirect(b, "add_complaint", "NotFound", "add_complaint")
                     /\ UNCHANGED complaints
                ELSE \E student \in found :
                       /\ Cardinality(complaints) < MaxComplaints
                       /\ complaints' = complaints \cup
                            {[id |-> NextId(complaints),
                              student_roll_no |-> AffinityInt(form.roll_no),
                              title |-> form.title, description |-> form.description,
                              teacher_username |->
                                 IF user # {} THEN (CHOOSE u \in user : TRUE).username
                                 ELSE "Unknown Teacher",
                              date_filed |-> now, status |-> "Pending"]}
                       /\ last' = SendNotificationEmail(
                                     Redirect(b, "add_complaint", "OK", "view_complaints"),
                                     student.parent_email, student.name, "Complaint")
    /\ UNCHANGED <<users, students, session, pending>>

\* ORDER BY date_filed without DESC
OrderByDateFiledAsc(rows) ==
    {q \in [1..Cardinality(rows) -> rows] :
        /\ \A i, j \in DOMAIN q : i # j => q[i] # q[j]
        /\ \A i, j \in DOMAIN q : i < j => q[i].date_filed <= q[j].date_filed}

\* ORDER BY date_filed DESC (lines 385, 422): every listing of the rows with
\* non-increasing date_filed; rows of equal date_filed come in any order
OrderByDateFiledDesc(rows) ==
    {q \in [1..Cardinality(rows) -> rows] :
        /\ \A i, j \in DOMAIN q : i # j => q[i] # q[j]
        /\ \A i, j \in DOMAIN q : i < j => q[i].date_filed >= q[j].date_filed}

\* view_complaints(), lines 379-387
ViewComplaints(b) ==
    /\ Idle(b)
    /\ IF ~IsTeacher(session[b]) THEN last' = Unauthorized(b, "view_complaints")
       ELSE \E listing \in OrderByDateFiledDesc(complaints) :
               last' = [Render(b, "view_complaints", "view_complaints.html")
                           EXCEPT !.complaints = listing]
    /\ UNCHANGED <<store, session, pending>>

(***************************************************************************)
(* Parent handlers.                                                        *)
(***************************************************************************)
NotParent(b, op) == Redirect(b, op, "Unauthorized", "home")

\* parent_dashboard(), lines 391-405
ParentDashboard(b) ==
    /\ Idle(b)
    /\ last' = IF ~IsParent(session[b]) THEN NotParent(b, "parent_dashboard")
               ELSE IF GetStudent(session[b].parent_lookup_id) = {}
               THEN Redirect(b, "parent_dashboard", "NotFound", "logout")
               ELSE [Render(b, "parent_dashboard", "parent_dashboard.html")
                        EXCEPT !.students = GetStudent(session[b].parent_lookup_id)]
    /\ UNCHANGED <<store, session, pending>>

\* parent_complaints(), lines 408-424
ParentComplaints(b) ==
    /\ Idle(b)
    /\ IF ~IsParent(session[b]) THEN last' = NotParent(b, "parent_complaints")
       ELSE IF StudentsByRoll(session[b].parent_lookup_roll_no) = {}
       THEN last' = Redirect(b, "parent_complaints", "NotFound", "logout")
       ELSE \E student \in StudentsByRoll(session[b].parent_lookup_roll_no) :
            \E listing \in OrderByDateFiledDesc(ComplaintsOf(student)) :
               last' = [Render(b, "parent_complaints", "parent_complaints.html")
                           EXCEPT !.students = {student}, !.complaints = listing]
    /\ UNCHANGED <<store, session, pending>>

(***************************************************************************)
(* Specification.                                                          *)
(***************************************************************************)
Init ==
    /\ users = {}
    /\ students = {}
    /\ complaints = {}
    /\ session = [b \in {"b1"} |-> EmptyDict]
    /\ pending = [b \in {"b1"} |-> NoReq]
    /\ last = Response("b1", "start", "OK", "render", "login.html")

Next ==
    \/ \E b \in Browsers : Home(b)
    \/ \E b \in Browsers, form \in RegisterForms, salt \in Salts : Register(b, form, salt)
    \/ \E b \in Browsers, form \in LookupForms : ParentLookup(b, form)
    \/ \E b \in Browsers, c \in Credentials : Login(b, c)
    \/ \E b \in Browsers : Logout(b)
    \/ \E b \in Browsers : ViewStudents(b)
    \/ \E b \in Browsers : AddStudentGet(b)
    \/ \E b \in Browsers, form \in StudentForms : AddStudent(b, form)
    \/ \E b \in Browsers, id \in StudentIds : SendEmailRoute(b, id)
    \/ \E b \in Browsers, id \in StudentIds : UpdateStudentGet(b, id)
    \/ \E b \in Browsers, id \in StudentIds, form \in StudentForms : UpdateStudent(b, id, form)
    \/ \E b \in Browsers, id \in StudentIds : DeleteStudent(b, id)
    \/ \E b \in Browsers : AddComplaintGet(b)
    \/ \E b \in Browsers, form \in ComplaintForms, now \in Now : AddComplaint(b, form, now)
    \/ \E b \in Browsers : ViewComplaints(b)
    \/ \E b \in Browsers : ParentDashboard(b)
    \/ \E b \in Browsers : ParentComplaints(b)

Spec == Init /\ [][Next]_vars

(***************************************************************************)
(* Two browsers whose add-student and update-student requests interleave   *)
(* between the uniqueness query and the commit.                            *)
(***************************************************************************)
RaceForms ==
    { Put(FormA, "roll_no", <<"1">>), Put(FormA, "roll_no", <<"2">>),
      Put(FormB, "roll_no", <<"2">>) }

InitRace ==
    /\ users = {}
    /\ students = {}
    /\ complaints = {}
    /\ session = [b \in {"b1", "b2"} |-> EmptyDict]
    /\ pending = [b \in {"b1", "b2"} |-> NoReq]
    /\ last = Response("b1", "start", "OK", "render", "login.html")

NextRace ==
    \/ \E b \in Browsers, form \in RegisterForms, salt \in Salts :
          form.username = "ms_lee" /\ Register(b, form, salt)
    \/ \E b \in Browsers, c \in Credentials : c.username = "ms_lee" /\ Login(b, c)
    \/ \E b \in Browsers, form \in RaceForms : AddStudentQuery(b, form)
    \/ \E b \in Browsers : AddStudentWrite(b)
    \/ \E b \in Browsers, id \in StudentIds, form \in RaceForms :
          UpdateStudentQuery(b, id, form)
    \/ \E b \in Browsers : UpdateStudentWrite(b)
    \/ \E b \in Browsers, id \in StudentIds : DeleteStudent(b, id)

SpecRace == InitRace /\ [][NextRace]_vars

(***************************************************************************)
(* The login form with the parent fields filled in, next to the requests   *)
(* that set up users, students and sessions for it.                        *)
(***************************************************************************)
NextLogin ==
    \/ \E b \in Browsers, form \in RegisterForms, salt \in Salts :
          form.username = "ms_lee" /\ Register(b, form, salt)
    \/ \E b \in Browsers, form \in LoginForms : Login(b, form)
    \/ \E b \in Browsers, form \in LoginLookups : ParentLookup(b, form)
    \/ \E b \in Browsers : Logout(b)
    \/ \E b \in Browsers, form \in StudentForms : AddStudent(b, form)
    \/ \E b \in Browsers, id \in StudentIds : DeleteStudent(b, id)

SpecLogin == Init /\ [][NextLogin]_vars

(***************************************************************************)
(* A teacher in one browser and a parent in another: whole requests of the *)
(* two sessions in any order.                                              *)
(***************************************************************************)
SharedLookups ==
    { [roll_no |-> <<"1">>, parent_email |-> "a@x.com"],
      [roll_no |-> <<"2">>, parent_email |-> "b@x.com"] }

NextShared ==
    \/ \E b \in Browsers, form \in RegisterForms, salt \in Salts :
          "role" \notin DOMAIN form /\ Register(b, form, salt)
    \/ \E b \in Browsers, c \in Credentials : c.username = "ms_lee" /\ Login(b, c)
    \/ \E b \in Browsers : Logout(b)
    \/ \E b \in Browsers, form \in RaceForms : AddStudent(b, form)
    \/ \E b \in Browsers, id \in StudentIds, form \in RaceForms : UpdateStudent(b, id, form)
    \/ \E b \in Browsers, id \in StudentIds : DeleteStudent(b, id)
    \/ \E b \in Browsers, form \in SharedLookups : ParentLookup(b, form)
    \/ \E b \in Browsers : ParentDashboard(b)
    \/ \E b \in Browsers : ParentComplaints(b)

SpecShared == InitRace /\ [][NextShared]_vars

(***************************************************************************)
(* A teacher account and a parent account side by side, and the requests   *)
(* that lead to a complaint being filed.                                   *)
(***************************************************************************)
FilerForms ==
    { [username |-> "ms_lee", email |-> "lee@s.edu", password |-> "pw1"],
      [username |-> "mr_kim", email |-> "kim@s.edu", password |-> "pw2", role |-> "parent"] }

FilerCredentials ==
    { [username |-> "ms_lee", password |-> "pw1"], [username |-> "mr_kim", password |-> "pw2"] }

NextFilers ==
    \/ \E b \in Browsers, form \in FilerForms, salt \in Salts : Register(b, form, salt)
    \/ \E b \in Browsers, c \in FilerCredentials : Login(b, c)
    \/ \E b \in Browsers, form \in SharedLookups : ParentLookup(b, form)
    \/ \E b \in Browsers : Logout(b)
    \/ \E b \in Browsers, form \in RaceForms : AddStudent(b, form)
    \/ \E b \in Browsers, form \in ComplaintForms, now \in Now : AddComplaint(b, form, now)

SpecFilers == Init /\ [][NextFilers]_vars

(***************************************************************************)
(* Browsers that follow redirects: a response redirect(url_for(endpoint))  *)
(* is answered by the browser with a GET of that endpoint, before it sends *)
(* any other request.                                                      *)
(***************************************************************************)
FollowForms == RaceForms \cup { Put(FormA, "roll_no", <<"x">>) }

FollowComplaintForms ==
    { [roll_no |-> r, title |-> "Homework", description |-> "Not submitted"] :
        r \in {<<"1">>, <<"x">>} }

Settled == last.kind # "redirect"

\* the GET of the endpoint that url_for named in the redirect
FollowRedirect(b) ==
    /\ last.kind = "redirect"
    /\ last.browser = b
    /\ \/ last.to = "home" /\ Home(b)
       \/ last.to = "register" /\ RegisterGet(b)
       \/ last.to = "logout" /\ Logout(b)
       \/ last.to = "view_students" /\ ViewStudents(b)
       \/ last.to = "add_student" /\ AddStudentGet(b)
       \/ last.to = "update_student" /\ \E st \in students : UpdateStudentGet(b, st.id)
       \/ last.to = "add_complaint" /\ AddComplaintGet(b)
       \/ last.to = "view_complaints" /\ ViewComplaints(b)
       \/ last.to = "parent_dashboard" /\ ParentDashboard(b)

FollowCredentials == FilerCredentials \cup { [username |-> "ms_lee", password |-> "pw2"] }

NextFollow ==
    \/ \E b \in Browsers : FollowRedirect(b)
    \/ \E b \in Browsers, form \in FilerForms, salt \in Salts :
          Settled /\ Register(b, form, salt)
    \/ \E b \in Browsers, c \in FollowCredentials : Settled /\ Login(b, c)
    \/ \E b \in Browsers, form \in SharedLookups : Settled /\ ParentLookup(b, form)
    \/ \E b \in Browsers : Settled /\ Logout(b)
    \/ \E b \in Browsers : Settled /\ Home(b)
    \/ \E b \in Browsers : Settled /\ ViewStudents(b)
    \/ \E b \in Browsers, form \in FollowForms : Settled /\ AddStudent(b, form)
    \/ \E b \in Browsers, id \in StudentIds, form \in FollowForms :
          Settled /\ UpdateStudent(b, id, form)
    \/ \E b \in Browsers, id \in StudentIds : Settled /\ DeleteStudent(b, id)
    \/ \E b \in Browsers, form \in FollowComplaintForms, now \in Now :
          Settled /\ now = MaxOf(Now) /\ AddComplaint(b, form, now)
    \/ \E b \in Browsers : Settled /\ ParentDashboard(b)
    \/ \E b \in Browsers : Settled /\ ParentComplaints(b)

SpecFollow ==
    Init /\ [][NextFollow]_vars /\ WF_vars(\E b \in Browsers : FollowRedirect(b))

(***************************************************************************)
(* Properties.                                                             *)
(***************************************************************************)
SessionKeys == {"user_id", "role", "parent_lookup_id", "parent_lookup_roll_no"}

\* a session that holds a user_id and the role teacher
TeacherSession(sess) ==
    /\ "user_id" \in DOMAIN sess
    /\ "role" \in DOMAIN sess
    /\ sess["role"] = "teacher"

\* the number a roll-number text denotes, when it denotes one
Denotes(text, n) == PyIntOK(text) /\ PyInt(text) = n

\* C1: a teacher's add-student with a roll_no some Student holds, and a
\* teacher's update-student of an existing record to a roll_no another Student
\* holds, are answered DuplicateRollNo and leave the three tables as they were:
\* no step that answers otherwise, or changes a table, is such a request.
C1_DuplicateRollNoRejected ==
    [][LET b == last'.browser
           rejected == /\ last'.outcome = "DuplicateRollNo"
                       /\ last'.kind = "redirect"
                       /\ store' = store
       IN  /\ (last'.op = "add_student" /\ ~rejected /\ TeacherSession(session[b]))
              => \A held \in students, form \in StudentForms :
                   ("roll_no" \in DOMAIN form /\ Denotes(form["roll_no"], held.roll_no))
                   => ~AddStudent(b, form)
           /\ (last'.op = "update_student" /\ ~rejected /\ TeacherSession(session[b]))
              => \A st \in students, held \in students, form \in StudentForms :
                   ( /\ st.id # held.id
                     /\ "roll_no" \in DOMAIN form
                     /\ Denotes(form["roll_no"], held.roll_no) )
                   => ~UpdateStudent(b, st.id, form)
      ]_vars

\* C1 witness: an update-student was just refused as DuplicateRollNo while two
\* students are stored.
C1_Witness ==
    /\ last.op = "update_student"
    /\ last.outcome = "DuplicateRollNo"
    /\ Cardinality(students) = 2

\* C2: no two Student rows hold the same roll_no, in every state that
\* interleaved add-student, update-student and delete-student requests reach.
C2_RollNoUnique ==
    \A s1, s2 \in students : s1.roll_no = s2.roll_no => s1 = s2

\* C2 witness: two add-student requests both passed the query for their
\* roll_no before either wrote, one has committed, and the other's commit has
\* just been refused by the store.
C2_Witness ==
    /\ last.op = "add_student"
    /\ last.outcome = "IntegrityError"
    /\ students # {}

TeacherOnlyOps ==
    {"view_students", "add_student", "update_student", "delete_student",
     "send_email_route", "add_complaint", "view_complaints"}

\* what a denied request answers: a redirect to home carrying no rows and no mail
Denied(resp) ==
    /\ resp.kind = "redirect"
    /\ resp.to = "home"
    /\ resp.students = {}
    /\ resp.complaints = <<>>
    /\ resp.mail = <<>>

\* C3: a request to a teacher-only endpoint from a session without user_id and
\* role teacher is redirected to home with no Student or Complaint row in the
\* response, no notification, and the three tables unchanged.
C3_TeacherOnlyDenied ==
    [][(last'.op \in TeacherOnlyOps /\ ~TeacherSession(session[last'.browser]))
         => (Denied(last') /\ store' = store)
      ]_vars

\* C3 witness: view-complaints was just denied to a parent session while
\* students and complaints are stored.
C3_Witness ==
    /\ last.op = "view_complaints"
    /\ last.outcome = "Unauthorized"
    /\ "parent_lookup_id" \in DOMAIN session[last.browser]
    /\ students # {}
    /\ complaints # {}

\* the Student rows a lookup form matches: the text of roll_no denotes the
\* row's roll_no and parent_email is the row's parent_email
Matching(form) ==
    IF {"roll_no", "parent_email"} \subseteq DOMAIN form
    THEN {st \in students : /\ Denotes(form["roll_no"], st.roll_no)
                            /\ form["parent_email"] = st.parent_email}
    ELSE {}

\* the step gave browser b the parent claims of one of the rows `found`
Established(b, found) ==
    /\ last'.outcome = "OK"
    /\ last'.to = "parent_dashboard"
    /\ \E st \in found :
         /\ {"parent_lookup_id", "parent_lookup_roll_no", "role"} \subseteq DOMAIN session'[b]
         /\ session'[b]["parent_lookup_id"] = st.id
         /\ session'[b]["parent_lookup_roll_no"] = st.roll_no
         /\ session'[b]["role"] = "parent"

\* the step refused the lookup and left every session as it was
Refused ==
    /\ last'.outcome = "InvalidLookup"
    /\ last'.to = "home"
    /\ session' = session

\* C4: a parent lookup sets the parent claims (of a matching row) if and only
\* if some Student row matches both roll_no and parent_email; otherwise, also
\* when one field matches, is missing or is no number, it answers
\* InvalidLookup and changes no session.
C4_ParentLookupIffBothMatch ==
    [][last'.op = "parent_lookup" =>
         \A form \in LookupForms :
            LET b == last'.browser
                found == Matching(form)
            IN  /\ ~(found # {} /\ ~Established(b, found) /\ ParentLookup(b, form))
                /\ ~(found = {} /\ ~Refused /\ ParentLookup(b, form))
      ]_vars

\* C4 witness: a lookup has just set the parent claims while the store holds a
\* second student, with another roll_no and another parent_email.
C4_Witness ==
    /\ last.op = "parent_lookup"
    /\ last.outcome = "OK"
    /\ \E st, other \in students :
         /\ st.id = session[last.browser]["parent_lookup_id"]
         /\ other.roll_no # st.roll_no
         /\ other.parent_email # st.parent_email

\* the stored password of u is a hash of pw
RegisteredWith(u, pw) == \E salt \in Salts : u.password = GeneratePasswordHash(salt, pw)

\* C5: a register with a stored username answers DuplicateUsername and leaves
\* the User table as it was; no step changes or removes a stored User; and a
\* login with a stored username and the password it was registered with
\* succeeds as that user.
C5_FirstRegistrationStays ==
    [][LET b == last'.browser
       IN  /\ \A u \in users : u \in users'
           /\ last'.op = "register" =>
                \A form \in RegisterForms, salt \in Salts :
                   /\ ~( /\ \E u \in users : u.username = form.username
                         /\ ~(last'.outcome = "DuplicateUsername" /\ users' = users)
                         /\ Register(b, form, salt) )
                   /\ ~( /\ \A u \in users : u.username # form.username
                         /\ last'.outcome = "OK"
                         /\ Register(b, form, salt)
                         /\ ~\E u \in users' \ users :
                               u.username = form.username /\ RegisteredWith(u, form.password) )
           /\ last'.op = "login" =>
                \A c \in Credentials, u \in users :
                   ~( /\ u.username = c.username
                      /\ RegisteredWith(u, c.password)
                      /\ ~( /\ last'.outcome = "OK"
                            /\ last'.to = "view_students"
                            /\ "user_id" \in DOMAIN session'[b]
                            /\ session'[b]["user_id"] = u.id )
                      /\ Login(b, c) )
      ]_vars

\* C5 witness: a register with a stored username was just refused.
C5_Witness ==
    /\ last.op = "register"
    /\ last.outcome = "DuplicateUsername"
    /\ users # {}

\* C6: a register with a username no stored User holds succeeds and adds one
\* User, whatever the email and role; DuplicateUsername is its only failure;
\* usernames and emails of stored Users stay unique.
C6_RegisterFreshUsernameSucceeds ==
    /\ [][last'.op = "register" =>
            \A form \in RegisterForms, salt \in Salts :
               Register(last'.browser, form, salt) =>
                  IF \E u \in users : u.username = form.username
                  THEN last'.outcome = "DuplicateUsername" /\ users' = users
                  ELSE /\ last'.outcome = "OK"
                       /\ Cardinality(users') = Cardinality(users) + 1
         ]_vars
    /\ [](\A u1, u2 \in users :
            (u1.username = u2.username \/ u1.email = u2.email) => u1 = u2)

\* C7: after a login that matched a stored User, the session passes the guard
\* of the teacher-only endpoints.
C7_LoginGivesTeacherSession ==
    (last.op = "login" /\ last.outcome = "OK" /\ last.to = "view_students")
    => TeacherSession(session[last.browser])

ParentOnlyOps == {"parent_dashboard", "parent_complaints"}

Cleared(sess) == DOMAIN sess \cap SessionKeys = {}

\* C8: logout leaves the session with none of the four claims, whatever it
\* held; a logout of a cleared session changes nothing in it; a cleared session
\* is denied every teacher-only and parent-only endpoint; and it stays cleared
\* until a login or a parent lookup succeeds.
C8_LogoutClearsSession ==
    [][LET b == last'.browser
       IN  /\ last'.op = "logout" =>
                /\ Cleared(session'[b])
                /\ Cleared(session[b]) => session'[b] = session[b]
                /\ \A other \in Browsers \ {b} : session'[other] = session[other]
           /\ (Cleared(session[b]) /\ last'.op \in TeacherOnlyOps \cup ParentOnlyOps)
                => Denied(last')
           /\ \A c \in Browsers :
                (Cleared(session[c]) /\ ~Cleared(session'[c]))
                => /\ last'.op \in {"login", "parent_lookup"}
                   /\ last'.outcome = "OK"
                   /\ last'.browser = c
      ]_vars

\* C8 witness: a logout has just cleared the session of a browser that had
\* logged in as teacher and added a student.
C8_Witness ==
    /\ last.op = "logout"
    /\ Cleared(session[last.browser])
    /\ students # {}

\* C9: delete-student of an existing Student, with or without complaints
\* against its roll_no, succeeds, removes that row alone and leaves every
\* Complaint as it was; delete-student of an absent id answers NotFound and
\* changes nothing.
C9_DeleteKeepsComplaints ==
    [][(last'.op = "delete_student" /\ TeacherSession(session[last'.browser])) =>
         \A id \in StudentIds :
            DeleteStudent(last'.browser, id) =>
               IF \E st \in students : st.id = id
               THEN /\ last'.outcome = "OK"
                    /\ students' = {st \in students : st.id # id}
                    /\ complaints' = complaints
                    /\ users' = users
               ELSE /\ last'.outcome = "NotFound"
                    /\ store' = store
      ]_vars

\* q lists each row of rows once, a row of later date_filed before a row of
\* earlier date_filed
ListsLatestFirst(q, rows) ==
    /\ Len(q) = Cardinality(rows)
    /\ {q[i] : i \in DOMAIN q} = rows
    /\ \A i, j \in DOMAIN q : q[i].date_filed > q[j].date_filed => i < j

\* C10: view-complaints lists every stored Complaint once, latest date_filed
\* first; parent-complaints lists, in the same order, exactly the Complaints
\* whose student_roll_no is the roll number of the parent session.
C10_ComplaintsLatestFirst ==
    /\ (last.op = "view_complaints" /\ last.kind = "render")
         => ListsLatestFirst(last.complaints, complaints)
    /\ (last.op = "parent_complaints" /\ last.kind = "render")
         => ListsLatestFirst(last.complaints,
               {c \in complaints :
                   c.student_roll_no = session[last.browser]["parent_lookup_roll_no"]})

\* C10 witness: view-complaints has just listed two complaints filed in
\* different seconds against different roll numbers.
C10_Witness ==
    /\ last.op = "view_complaints"
    /\ Len(last.complaints) = 2
    /\ last.complaints[1].date_filed > last.complaints[2].date_filed
    /\ last.complaints[1].student_roll_no # last.complaints[2].student_roll_no

\* C11: an add-complaint of a teacher whose roll_no no Student holds answers
\* NotFound and leaves the three tables as they were; and every Complaint an
\* add-complaint inserts carries the roll_no of a Student stored at that moment.
C11_ComplaintNeedsStudent ==
    [][last'.op = "add_complaint" =>
         LET b == last'.browser
         IN  /\ \A c \in complaints' \ complaints :
                   \E st \in students : st.roll_no = c.student_roll_no
             /\ TeacherSession(session[b]) =>
                   \A form \in ComplaintForms, now \in Now :
                      ~( /\ {"roll_no", "title", "description"} \subseteq DOMAIN form
                         /\ \A st \in students : ~Denotes(form["roll_no"], st.roll_no)
                         /\ ~(last'.outcome = "NotFound" /\ store' = store)
                         /\ AddComplaint(b, form, now) )
      ]_vars

\* C11 witness: an add-complaint was just answered NotFound while a student
\* with another roll_no is stored.
C11_Witness ==
    /\ last.op = "add_complaint"
    /\ last.outcome = "NotFound"
    /\ students # {}
    /\ complaints = {}

\* C12: every stored Complaint has status Pending; no step changes a field of
\* a stored Complaint or removes it; and a rendered parent-complaints lists,
\* all with status Pending, as many entries as Complaints are stored against
\* the student's roll_no.
C12_ComplaintsOnlyGrow ==
    /\ [][\A c \in complaints : c \in complaints']_vars
    /\ [](\A c \in complaints : c.status = "Pending")
    /\ []((last.op = "parent_complaints" /\ last.kind = "render") =>
            /\ \A i \in DOMAIN last.complaints : last.complaints[i].status = "Pending"
            /\ \A st \in last.students :
                  Len(last.complaints) =
                     Cardinality({c \in complaints : c.student_roll_no = st.roll_no}))

\* C12 witness: parent-complaints has just listed the one complaint filed
\* against the student, with status Pending, while a second complaint, against
\* another roll_no, is stored.
C12_Witness ==
    /\ last.op = "parent_complaints"
    /\ last.kind = "render"
    /\ Len(last.complaints) = 1
    /\ last.complaints[1].status = "Pending"
    /\ Cardinality(complaints) = 2

\* the row update-student stores for record id from a complete form
Submitted(id, form) == StudentRow(id, PyInt(form["roll_no"]), form)

\* C13: for a teacher's update-student(id, form): an id no Student has is
\* answered NotFound; a roll_no equal to the record's own is never answered
\* DuplicateRollNo; a success leaves the record holding the submitted value in
\* each of its nine fields and every other row as it was; and a rejection
\* leaves the three tables as they were.
C13_UpdateStudentContract ==
    [][last'.op = "update_student" =>
         LET b == last'.browser
         IN  /\ last'.outcome \in {"InvalidInput", "DuplicateRollNo", "NotFound"}
                   => store' = store
             /\ (last'.outcome # "NotFound" /\ TeacherSession(session[b]))
                   => \A id \in StudentIds, form \in StudentForms :
                         GetStudent(id) = {} => ~UpdateStudent(b, id, form)
             /\ last'.outcome = "DuplicateRollNo"
                   => \A st \in students, form \in StudentForms :
                         ("roll_no" \in DOMAIN form /\ Denotes(form["roll_no"], st.roll_no))
                         => ~UpdateStudent(b, st.id, form)
             /\ last'.outcome = "OK"
                   => \A st \in students, form \in StudentForms :
                         UpdateStudent(b, st.id, form)
                         => /\ students' = (students \ {st}) \cup {Submitted(st.id, form)}
                            /\ users' = users
                            /\ complaints' = complaints
      ]_vars

\* C13 witness: an update-student that kept the record's roll_no and changed
\* its other fields has just succeeded while another student is stored.
C13_Witness ==
    /\ last.op = "update_student"
    /\ last.outcome = "OK"
    /\ last.mail = <<[to |-> "b@x.com", name |-> "Ben", event |-> "Update"]>>
    /\ \E st, other \in students :
         /\ st.id = 1 /\ st.roll_no = 2 /\ st.name = "Ben"
         /\ other.id = 2 /\ other.roll_no = 1

\* the response of a request that went through: the redirect after the commit
Succeeded(resp) == resp.outcome = "OK" /\ resp.kind = "redirect"

\* the response carries exactly one notification, of this event, addressed with
\* the name and parent_email of the row st
NotifiesOnce(resp, event, st) ==
    resp.mail = <<[to |-> st.parent_email, name |-> st.name, event |-> event]>>

\* C14: a response carries a notification only when the request succeeded, and
\* then exactly one; a rejected request carries none.  After a successful
\* add-student or update-student it is an Update for a row the store holds
\* after the step; after a successful delete-student a Delete with the name
\* and parent_email of the row the step removed; after a successful
\* add-complaint a Complaint for the student of the row the step inserted.
C14_NotifyAfterCommit ==
    [][LET resp == last'
       IN  /\ resp.mail # <<>> => (Succeeded(resp) /\ Len(resp.mail) = 1)
           /\ resp.outcome \in {"Unauthorized", "InvalidInput", "DuplicateRollNo", "NotFound"}
                 => resp.mail = <<>>
           /\ (resp.op = "add_student" /\ Succeeded(resp))
                 => \E st \in students' \ students : NotifiesOnce(resp, "Update", st)
           /\ (resp.op = "update_student" /\ Succeeded(resp))
                 => \E st \in students' : NotifiesOnce(resp, "Update", st)
           /\ (resp.op = "delete_student" /\ Succeeded(resp))
                 => \E st \in students \ students' : NotifiesOnce(resp, "Delete", st)
           /\ (resp.op = "add_complaint" /\ Succeeded(resp))
                 => \E c \in complaints' \ complaints, st \in students :
                       /\ st.roll_no = c.student_roll_no
                       /\ NotifiesOnce(resp, "Complaint", st)
      ]_vars

\* C14 witness: a delete-student has just succeeded and notified with the name
\* of the removed row, which no stored student bears.
C14_Witness ==
    /\ last.op = "delete_student"
    /\ Succeeded(last)
    /\ Len(last.mail) = 1
    /\ last.mail[1].event = "Delete"
    /\ students # {}
    /\ \A st \in students : st.name # last.mail[1].name

\* C15: an add-student or update-student request that did not succeed was
\* answered with a rejection the user sees (InvalidInput, DuplicateRollNo,
\* NotFound, or Unauthorized for a session that is no teacher's), never with an
\* unhandled fault, also when two requests interleave between the uniqueness
\* query and the commit.
C15_NoUnhandledFault ==
    (last.op \in {"add_student", "update_student"} /\ last.outcome # "OK")
    => /\ last.kind = "redirect"
       /\ last.outcome \in {"InvalidInput", "DuplicateRollNo", "NotFound", "Unauthorized"}

\* the username and password of the form are those of a stored User
CredentialsMatch(form) ==
    \E u \in users : /\ "username" \in DOMAIN form /\ u.username = form["username"]
                     /\ "password" \in DOMAIN form /\ RegisteredWith(u, form["password"])

\* the form carries a roll number and a parent email, neither empty
CarriesLookup(form) ==
    /\ {"roll_no", "parent_email"} \subseteq DOMAIN form
    /\ form["roll_no"] # <<>>
    /\ form["parent_email"] # ""

\* C16: a login whose username and password match no stored User, and which
\* carries a roll number and a parent email, sets the parent claims of a
\* matching row when some Student matches both, and otherwise answers
\* InvalidLookup; without both fields it answers InvalidCredentials; and each
\* failing login leaves every session as it was.
C16_LoginFallsBackToLookup ==
    [][last'.op = "login" =>
         \A form \in LoginForms :
            LET b == last'.browser
                found == Matching(form)
            IN  (~CredentialsMatch(form) /\ Login(b, form)) =>
                   IF ~CarriesLookup(form)
                   THEN /\ last'.outcome = "InvalidCredentials"
                        /\ last'.to = "home"
                        /\ session' = session
                   ELSE IF found # {} THEN Established(b, found)
                   ELSE Refused
      ]_vars

\* C16 witness: a login with a wrong password and the parent fields of a
\* stored student has just set the parent claims in a session that holds a
\* teacher's user_id.
C16_Witness ==
    /\ last.op = "login"
    /\ last.outcome = "OK"
    /\ last.to = "parent_dashboard"
    /\ {"user_id", "parent_lookup_id"} \subseteq DOMAIN session[last.browser]
    /\ session[last.browser]["role"] = "parent"

\* C17: an update-student that changes a student's roll_no leaves every
\* Complaint as it was, the ones against the old roll_no included; and a
\* rendered parent-complaints lists exactly the Complaints whose
\* student_roll_no is the roll_no the listed student holds now, whoever held
\* that roll_no when they were filed.
C17_ComplaintsStayWithRollNo ==
    /\ [][(last'.op = "update_student" /\ students' # students)
            => complaints' = complaints]_vars
    /\ []((last.op = "parent_complaints" /\ last.kind = "render") =>
            \A st \in last.students :
               /\ st \in students
               /\ {last.complaints[i] : i \in DOMAIN last.complaints}
                    = {c \in complaints : c.student_roll_no = st.roll_no})

\* C17 witness: an update-student has just changed a roll_no against which a
\* complaint is stored: no student holds the roll_no of that complaint.
C17_Witness ==
    /\ last.op = "update_student"
    /\ last.outcome = "OK"
    /\ \E c \in complaints : StudentsByRoll(c.student_roll_no) = {}

\* C18: every Student row that parent-dashboard or parent-complaints renders
\* is the row whose id the lookup stored in the session, whatever requests of a
\* teacher ran in between.
C18_ParentViewsSameStudent ==
    (last.op \in ParentOnlyOps /\ last.kind = "render")
    => \A st \in last.students : st.id = session[last.browser]["parent_lookup_id"]

\* the stored User of role teacher a complaint names as its filer
FiledBy(c) == {u \in users : u.username = c.teacher_username /\ u.role = "teacher"}

\* C19: every stored Complaint names as teacher_username a stored User of
\* role teacher, never 'Unknown Teacher'; and the session of the request that
\* inserts a Complaint holds the user_id of that User.
C19_ComplaintFiledByTeacher ==
    /\ [](\A c \in complaints :
             FiledBy(c) # {} /\ c.teacher_username # "Unknown Teacher")
    /\ [][\A c \in complaints' \ complaints :
             \E u \in FiledBy(c) :
                /\ "user_id" \in DOMAIN session[last'.browser]
                /\ session[last'.browser]["user_id"] = u.id]_vars

\* C19 witness: a complaint is stored while the session holds the user_id of
\* a second User, whose role is parent.
C19_Witness ==
    /\ complaints # {}
    /\ \E u \in users :
         /\ u.role = "parent"
         /\ "user_id" \in DOMAIN session["b1"]
         /\ session["b1"]["user_id"] = u.id

\* C20: a browser that follows the redirects it is answered with arrives at a
\* rendered view: no chain of redirects goes on for ever.
C20_RedirectsEnd == (last.kind = "redirect") ~> (last.kind = "render")

\* C20 witness: parent-dashboard has just redirected to logout a session that
\* holds the parent claims of a student a teacher deleted, and the user_id of
\* a User whose stored role is parent.
C20_Witness ==
    /\ last.op = "parent_dashboard"
    /\ last.outcome = "NotFound"
    /\ last.to = "logout"
    /\ {"parent_lookup_id", "user_id"} \subseteq DOMAIN session[last.browser]
    /\ \E u \in users : u.role = "parent" /\ u.id = session[last.browser]["user_id"]
====
